---------------------------- MODULE Spec2Model ----------------------------
(***************************************************************************)
(* The NEWT timbre-transfer notebook                                       *)
(* (src/AI Parts/Music Part/ddsp/ddsp/colab/demos/                         *)
(*  Copy_of_NEWT_Timbre_Transfer.ipynb) as a state machine.                *)
(*                                                                         *)
(* The state is the notebook's global namespace; every code cell is one    *)
(* action, and cells may be run in any order.  A cell that raises          *)
(* (NameError on an unbound global, RuntimeError from torch) keeps the     *)
(* assignments it made before the raising line.                            *)
(*                                                                         *)
(* Numbers are exact rationals <<n, d>> (d > 0, lowest terms): float       *)
(* rounding of .float() and of the numpy arithmetic is abstracted away in  *)
(* the cells; the normalisation is modelled again with rounding further    *)
(* down.                                                                   *)
(* A numpy 1-D array is a sequence of rationals.  A torch tensor is a      *)
(* record [shape, data]: shape <<T>> for a 1-D tensor, <<>> for a 0-dim    *)
(* tensor (data then holds the single element), <<2, T>> or <<2>> for the  *)
(* stacked control tensor (data then holds the two rows).                  *)
(***************************************************************************)
EXTENDS Integers, Sequences, FiniteSets, TLC

(***************************************************************************)
(* Exact rational arithmetic.                                              *)
(***************************************************************************)
Abs(n) == IF n < 0 THEN -n ELSE n

RECURSIVE GCD(_, _)
GCD(a, b) == IF b = 0 THEN a ELSE GCD(b, a % b)

\* n/d in lowest terms with a positive denominator (d # 0).
Rat(n, d) ==
    LET s == IF d < 0 THEN -1 ELSE 1
        g == GCD(Abs(n), Abs(d))
    IN  <<(s * n) \div g, (s * d) \div g>>

Zero == Rat(0, 1)

RAdd(a, b) == Rat(a[1] * b[2] + b[1] * a[2], a[2] * b[2])
RSub(a, b) == Rat(a[1] * b[2] - b[1] * a[2], a[2] * b[2])
RMul(a, b) == Rat(a[1] * b[1], a[2] * b[2])
RDiv(a, b) == Rat(a[1] * b[2], a[2] * b[1])
RGt(a, b)  == a[1] * b[2] > b[1] * a[2]

RECURSIVE Pow(_, _)
Pow(b, e) == IF e = 0 THEN 1 ELSE b * Pow(b, e - 1)

\* Python's  2 ** octave_shift : an int for k >= 0, the float 1 / 2**-k otherwise.
Pow2OfMagnitude(k) == Rat(Pow(2, Abs(k)), 1)
Pow2(k) == IF k >= 0 THEN Rat(Pow(2, k), 1) ELSE Rat(1, Pow(2, -k))

(***************************************************************************)
(* The statements of the Adjust Control Signals cell, as array operators.  *)
(***************************************************************************)
\* x * (confidence > threshold): a boolean mask multiplies as 1 or 0.
MaskAtOrAbove(x, conf, threshold) ==
    [i \in 1..Len(x) |-> IF RGt(threshold, conf[i]) THEN Zero ELSE x[i]]
MaskAllOrNothing(x, conf, threshold) ==
    [i \in 1..Len(x) |->
        IF \A j \in 1..Len(x) : RGt(conf[j], threshold) THEN x[i] ELSE Zero]
MaskAbove(x, conf, threshold) ==
    [i \in 1..Len(x) |-> IF RGt(conf[i], threshold) THEN x[i] ELSE Zero]

\* f0_filtered * (2 ** octave_shift)
OctaveShift(x, k) == [i \in 1..Len(x) |-> RMul(x[i], Pow2(k))]

\* loudness_filtered * (loudness_filtered > loudness_floor) - loudness_floor
LoudnessFloorGateOnly(x, floor) ==
    [i \in 1..Len(x) |-> IF RGt(x[i], floor) THEN RSub(x[i], floor) ELSE Zero]
LoudnessFloorAtOrAbove(x, floor) ==
    [i \in 1..Len(x) |->
        RSub(IF RGt(floor, x[i]) THEN Zero ELSE x[i], floor)]
LoudnessFloor(x, floor) ==
    [i \in 1..Len(x) |->
        RSub(IF RGt(x[i], floor) THEN x[i] ELSE Zero, floor)]

\* loudness_floored * loudness_scale
Scale(x, s) == [i \in 1..Len(x) |-> RMul(x[i], s)]

\* (x - mean) / std, elementwise
Normalize(x, mean, std) ==
    [i \in 1..Len(x) |-> RDiv(RSub(x[i], mean), std)]

RECURSIVE SumRange(_, _, _)
SumRange(x, lo, hi) ==
    IF lo > hi THEN Zero ELSE RAdd(x[lo], SumRange(x, lo + 1, hi))

Max(a, b) == IF a > b THEN a ELSE b
Min(a, b) == IF a < b THEN a ELSE b

\* torch.nn.functional.conv1d(x, ones(2r+1) / (2r+1), padding=r): the input
\* is padded with r zeros on each side, so the kernel always divides by
\* 2r+1 and the output keeps the length of x.
Conv1dBox(x, r) ==
    [i \in 1..Len(x) |->
        RDiv(SumRange(x, Max(1, i - r), Min(Len(x), i + r)), Rat(2 * r + 1, 1))]

\* torch.tensor(array): a 1-D tensor of the array's length.
Tensor(x) == [shape |-> <<Len(x)>>, data |-> x]

\* tensor.squeeze() on the (1, 1, T) result of conv1d: every dimension of
\* size 1 is dropped, so T = 1 leaves a 0-dim tensor.
\* (squeeze(0).squeeze(0) would keep the last dimension.)
SqueezeKeep(x) == [shape |-> <<Len(x)>>, data |-> x]
Squeeze(x) ==
    IF Len(x) = 1 THEN [shape |-> <<>>, data |-> x]
                  ELSE [shape |-> <<Len(x)>>, data |-> x]

\* The smoothing branch: conv1d(...).squeeze() when the radius is not 0.
Smooth(t, r) == IF r # 0 THEN Squeeze(Conv1dBox(t.data, r)) ELSE t

\* torch.tensor((t.cpu() - mean) / std): elementwise, shape kept.
NormalizeTensor(t, mean, std) ==
    [shape |-> t.shape, data |-> Normalize(t.data, mean, std)]

\* torch.stack((a, b), dim=0) raises unless a and b have equal shapes.
CanStack(a, b) == a.shape = b.shape
Stack(a, b) == [shape |-> <<2>> \o a.shape, data |-> <<a.data, b.data>>]


\* What one complete run of the Adjust Control Signals cell computes from
\* the features, the form and the checkpoint statistics: the F0 tensor
\* (f0_t), the loudness tensor (loud_norm_t) and the pitch row (f0_norm_t).
RunF0(x, conf, form) ==
    Smooth(Tensor(OctaveShift(MaskAbove(x, conf, form.pitch_conf_filter),
                              form.octave_shift)),
           form.pitch_smoothing)

RunLoudness(x, conf, form, mean, std) ==
    Smooth(Tensor(Normalize(
               Scale(LoudnessFloor(MaskAbove(x, conf, form.loudness_conf_filter),
                                   form.loudness_floor),
                     form.loudness_scale),
               mean[2], std[2])),
           form.loudness_smoothing)

RunPitchRow(x, conf, form, mean, std) ==
    NormalizeTensor(RunF0(x, conf, form), mean[1], std[1])

(***************************************************************************)
(* Inputs.  A clip stands for the waveform held in `audio`, identified     *)
(* with what the external extractors return for it: one frame              *)
(* <<f0, confidence, loudness>> per control-rate step.                     *)
(***************************************************************************)
MaxT == 3

FrameKinds ==
    { <<Rat(440, 1), Rat(9, 10), Rat(1, 2)>>,     \* pitched, confident, loud
      <<Rat(440, 1), Rat(1, 20), Rat(3, 50)>>,    \* unsure, loudness at 0.06
      <<Rat(0, 1),   Rat(1, 10), Rat(1, 20)>> }   \* unpitched, quiet

Clips == UNION { [1..n -> FrameKinds] : n \in 1..MaxT }

\* The clips the whole-notebook specification loads: the shortest and the
\* longest steady note.
NotebookClips ==
    { [i \in 1..n |-> <<Rat(440, 1), Rat(9, 10), Rat(1, 2)>>] :
        n \in {1, MaxT} }

\* checkpoints = dict(Violin="vn", Flute="fl", Trumpet="tpt")
CheckpointNames == {"Violin", "Flute", "Trumpet"}

\* The checkpoints the whole-notebook specification selects.
NotebookCheckpoints == {"Violin", "Flute"}

\* np.load of data_mean.npy / data_std.npy of a checkpoint directory: one
\* entry for pitch, one for loudness.  The files are not part of the
\* repository; these are stand-ins with distinct, non-zero values.
CheckpointStats(name) ==
    CASE name = "Violin"  -> [mean |-> <<Rat(220, 1), Rat(1, 4)>>,
                              std  |-> <<Rat(110, 1), Rat(1, 2)>>]
      [] name = "Flute"   -> [mean |-> <<Rat(440, 1), Rat(1, 2)>>,
                              std  |-> <<Rat(100, 1), Rat(1, 4)>>]
      [] name = "Trumpet" -> [mean |-> <<Rat(330, 1), Rat(1, 5)>>,
                              std  |-> <<Rat(50, 1),  Rat(1, 5)>>]

\* The sliders of the Adjust Control Signals form.
MinOctaveShift == -4
MaxOctaveShift == 4
MaxSmoothing == 100

\* The form as written in the cell's source.
DefaultForm ==
    [octave_shift         |-> 1,
     loudness_scale       |-> Rat(1, 2),
     loudness_floor       |-> Rat(6, 100),
     loudness_conf_filter |-> Zero,
     pitch_conf_filter    |-> Zero,
     pitch_smoothing      |-> 0,
     loudness_smoothing   |-> 0]

FormFields == DOMAIN DefaultForm

\* The slider positions tried by the specification that sweeps the gating,
\* octave, floor and scale sliders (smoothing stays off).
SliderValues ==
    [octave_shift         |-> MinOctaveShift..MaxOctaveShift,
     loudness_scale       |-> {Rat(1, 2), Rat(2, 1)},
     loudness_floor       |-> {Zero, Rat(6, 100)},
     loudness_conf_filter |-> {Zero, Rat(1, 10)},
     pitch_conf_filter    |-> {Zero, Rat(1, 10)},
     pitch_smoothing      |-> {0},
     loudness_smoothing   |-> {0}]

\* The slider positions tried by the specification that sweeps the two
\* smoothing sliders.
SmoothingSliderValues ==
    [octave_shift         |-> {0, 1},
     loudness_scale       |-> {Rat(1, 2)},
     loudness_floor       |-> {Rat(6, 100)},
     loudness_conf_filter |-> {Zero},
     pitch_conf_filter    |-> {Zero},
     pitch_smoothing      |-> {0, 1, MaxSmoothing},
     loudness_smoothing   |-> {0, 1, MaxSmoothing}]

\* The slider positions tried by the whole-notebook specification.
NotebookSliderValues ==
    [octave_shift         |-> {1},
     loudness_scale       |-> {Rat(1, 2)},
     loudness_floor       |-> {Rat(6, 100)},
     loudness_conf_filter |-> {Zero},
     pitch_conf_filter    |-> {Zero},
     pitch_smoothing      |-> {0, 1},
     loudness_smoothing   |-> {0, 1}]

(***************************************************************************)
(* The notebook's global namespace.                                        *)
(***************************************************************************)
VARIABLES
    globals,                  \* the names bound so far
    selected_checkpoint_name, model_newt, data_mean, data_std,
    audio,
    f0, confidence, loudness,
    octave_shift, loudness_scale, loudness_floor,
    loudness_conf_filter, pitch_conf_filter,
    pitch_smoothing, loudness_smoothing,
    f0_filtered, loudness_filtered, f0_shifted,
    loudness_floored, loudness_scaled, loud_norm,
    f0_t, loud_norm_t, f0_norm_t, control,
    out,
    sample                    \* the value handed to the normalisation harness

checkpointVars == <<selected_checkpoint_name, data_mean, data_std>>
featureVars == <<f0, confidence, loudness>>
formVars == <<octave_shift, loudness_scale, loudness_floor,
              loudness_conf_filter, pitch_conf_filter,
              pitch_smoothing, loudness_smoothing>>
numpyVars == <<f0_filtered, loudness_filtered, f0_shifted,
               loudness_floored, loudness_scaled>>
torchVars == <<loud_norm, f0_t, loud_norm_t, f0_norm_t>>

vars == <<globals, checkpointVars, model_newt, audio, featureVars, formVars,
          numpyVars, torchVars, control, out, sample>>

\* What an unbound name holds in the model (never read while unbound).
NoArray == <<>>
NoTensor == [shape |-> <<0>>, data |-> <<>>]
NoOut == [f0 |-> NoTensor, control |-> NoTensor]
NoSample == [channel |-> 0, x |-> Zero, y |-> Zero, normalized |-> FALSE]

CheckpointGlobals == {"model", "original_newt", "data_mean", "data_std"}
FeatureGlobals == {"f0", "confidence", "loudness"}
NumpyGlobals == {"f0_filtered", "loudness_filtered", "f0_shifted",
                 "loudness_floored", "loudness_scaled"}
TorchGlobals == {"loud_norm", "f0_t", "loud_norm_t", "f0_norm_t"}

\* The form's current content.
Form ==
    [octave_shift         |-> octave_shift,
     loudness_scale       |-> loudness_scale,
     loudness_floor       |-> loudness_floor,
     loudness_conf_filter |-> loudness_conf_filter,
     pitch_conf_filter    |-> pitch_conf_filter,
     pitch_smoothing      |-> pitch_smoothing,
     loudness_smoothing   |-> loudness_smoothing]

\* A fresh kernel after the setup cells: nothing of the pipeline is bound;
\* the form shows the values written in the cell.
Init ==
    /\ globals = {}
    /\ selected_checkpoint_name = "none"
    /\ model_newt = "none"
    /\ data_mean = NoArray
    /\ data_std = NoArray
    /\ audio = NoArray
    /\ f0 = NoArray
    /\ confidence = NoArray
    /\ loudness = NoArray
    /\ octave_shift = DefaultForm.octave_shift
    /\ loudness_scale = DefaultForm.loudness_scale
    /\ loudness_floor = DefaultForm.loudness_floor
    /\ loudness_conf_filter = DefaultForm.loudness_conf_filter
    /\ pitch_conf_filter = DefaultForm.pitch_conf_filter
    /\ pitch_smoothing = DefaultForm.pitch_smoothing
    /\ loudness_smoothing = DefaultForm.loudness_smoothing
    /\ f0_filtered = NoArray
    /\ loudness_filtered = NoArray
    /\ f0_shifted = NoArray
    /\ loudness_floored = NoArray
    /\ loudness_scaled = NoArray
    /\ loud_norm = NoArray
    /\ f0_t = NoTensor
    /\ loud_norm_t = NoTensor
    /\ f0_norm_t = NoTensor
    /\ control = NoTensor
    /\ out = NoOut
    /\ sample = NoSample

(***************************************************************************)
(* The cells.                                                              *)
(***************************************************************************)

LoadCheckpointFixedStats(name) ==
    /\ selected_checkpoint_name' = name
    /\ model_newt' = "NEWT"
    /\ data_mean' = CheckpointStats("Flute").mean
    /\ data_std' = CheckpointStats("Flute").std
    /\ globals' = globals \cup CheckpointGlobals
    /\ UNCHANGED <<audio, featureVars, formVars, numpyVars, torchVars,
                   control, out, sample>>

\* Load Checkpoint { run: "auto" }: a new model (with its own NEWT) and the
\* checkpoint's statistics.
LoadCheckpoint(name) ==
    /\ selected_checkpoint_name' = name
    /\ model_newt' = "NEWT"
    /\ data_mean' = CheckpointStats(name).mean
    /\ data_std' = CheckpointStats(name).std
    /\ globals' = globals \cup CheckpointGlobals
    /\ UNCHANGED <<audio, featureVars, formVars, numpyVars, torchVars,
                   control, out, sample>>

\* 1. Get Audio from YouTube: `audio` is bound by wavfile.read before
\* resample_audio reads model.sample_rate, so the name is bound even when
\* no checkpoint is loaded.
GetAudio(clip) ==
    /\ audio' = clip
    /\ globals' = globals \cup {"audio"}
    /\ UNCHANGED <<checkpointVars, model_newt, featureVars, formVars,
                   numpyVars, torchVars, control, out, sample>>

\* Extract Audio Features: f0, confidence and loudness of `audio`.
ExtractAudioFeatures ==
    /\ "audio" \in globals
    /\ f0' = [i \in 1..Len(audio) |-> audio[i][1]]
    /\ confidence' = [i \in 1..Len(audio) |-> audio[i][2]]
    /\ loudness' = [i \in 1..Len(audio) |-> audio[i][3]]
    /\ globals' = globals \cup FeatureGlobals
    /\ UNCHANGED <<checkpointVars, model_newt, audio, formVars, numpyVars,
                   torchVars, control, out, sample>>

\* Adjust Control Signals { run: "auto" }, run with the form showing `form`.
AdjustControlSignals(form) ==
    /\ octave_shift' = form.octave_shift
    /\ loudness_scale' = form.loudness_scale
    /\ loudness_floor' = form.loudness_floor
    /\ loudness_conf_filter' = form.loudness_conf_filter
    /\ pitch_conf_filter' = form.pitch_conf_filter
    /\ pitch_smoothing' = form.pitch_smoothing
    /\ loudness_smoothing' = form.loudness_smoothing
    /\ UNCHANGED <<checkpointVars, model_newt, audio, featureVars, out, sample>>
    /\ IF "f0" \notin globals
       THEN \* NameError: f0
            UNCHANGED <<globals, numpyVars, torchVars, control>>
       ELSE
        /\ f0_filtered' = MaskAbove(f0, confidence, pitch_conf_filter')
        /\ loudness_filtered' =
               MaskAbove(loudness, confidence, loudness_conf_filter')
        /\ f0_shifted' = OctaveShift(f0_filtered', octave_shift')
        /\ loudness_floored' = LoudnessFloor(loudness_filtered', loudness_floor')
        /\ loudness_scaled' = Scale(loudness_floored', loudness_scale')
        /\ IF "data_mean" \notin globals
           THEN \* NameError: data_mean
                /\ globals' = globals \cup NumpyGlobals
                /\ UNCHANGED <<torchVars, control>>
           ELSE
            /\ loud_norm' = Normalize(loudness_scaled', data_mean[2], data_std[2])
            /\ f0_t' = Smooth(Tensor(f0_shifted'), pitch_smoothing')
            /\ loud_norm_t' = Smooth(Tensor(loud_norm'), loudness_smoothing')
            /\ f0_norm_t' = NormalizeTensor(f0_t', data_mean[1], data_std[1])
            /\ IF CanStack(f0_norm_t', loud_norm_t')
               THEN /\ control' = Stack(f0_norm_t', loud_norm_t')
                    /\ globals' = globals \cup NumpyGlobals \cup TorchGlobals
                                          \cup {"control"}
               ELSE \* RuntimeError: stack expects each tensor to be equal size
                    /\ globals' = globals \cup NumpyGlobals \cup TorchGlobals
                    /\ UNCHANGED control

\* Select NEWT version { run: "auto" }
SelectNEWTVersion(use_fastnewt) ==
    /\ "model" \in globals
    /\ model_newt' = IF use_fastnewt THEN "FastNEWT" ELSE "NEWT"
    /\ UNCHANGED <<globals, checkpointVars, audio, featureVars, formVars,
                   numpyVars, torchVars, control, out, sample>>

\* f0_t.expand(1, 1, -1) needs a tensor with at least one dimension.
CanExpand(t) == t.shape # <<>>

SynthesiseAudioFromPitchRow ==
    /\ {"model", "f0_t", "control"} \subseteq globals
    /\ CanExpand(f0_t)
    /\ out' = [f0 |-> f0_norm_t, control |-> control]
    /\ globals' = globals \cup {"out"}
    /\ UNCHANGED <<checkpointVars, model_newt, audio, featureVars, formVars,
                   numpyVars, torchVars, control, sample>>

\* Synthesise Audio!: out = model(f0_t.expand(1, 1, -1), control.unsqueeze(0)).
\* The model is external; `out` is identified with what the call was given.
SynthesiseAudio ==
    /\ {"model", "f0_t", "control"} \subseteq globals
    /\ CanExpand(f0_t)
    /\ out' = [f0 |-> f0_t, control |-> control]
    /\ globals' = globals \cup {"out"}
    /\ UNCHANGED <<checkpointVars, model_newt, audio, featureVars, formVars,
                   numpyVars, torchVars, control, sample>>

\* The form after the user moves one slider (or re-runs the cell as it is).
FormChanges(values) ==
    {Form} \cup
    UNION { { [Form EXCEPT ![field] = v] : v \in values[field] } :
            field \in FormFields }

\* The whole notebook: any cell, in any order.
Next ==
    \/ \E name \in NotebookCheckpoints : LoadCheckpoint(name)
    \/ \E clip \in NotebookClips : GetAudio(clip)
    \/ ExtractAudioFeatures
    \/ \E form \in FormChanges(NotebookSliderValues) : AdjustControlSignals(form)
    \/ \E use_fastnewt \in BOOLEAN : SelectNEWTVersion(use_fastnewt)
    \/ SynthesiseAudio

Spec == Init /\ [][Next]_vars

\* The notebook run from the top down to Extract Audio Features, for any
\* checkpoint and any clip; the Adjust Control Signals form is untouched.
InitExtracted ==
    \E name \in CheckpointNames, clip \in Clips :
        /\ globals = CheckpointGlobals \cup {"audio"} \cup FeatureGlobals
        /\ selected_checkpoint_name = name
        /\ model_newt = "NEWT"
        /\ data_mean = CheckpointStats(name).mean
        /\ data_std = CheckpointStats(name).std
        /\ audio = clip
        /\ f0 = [i \in 1..Len(clip) |-> clip[i][1]]
        /\ confidence = [i \in 1..Len(clip) |-> clip[i][2]]
        /\ loudness = [i \in 1..Len(clip) |-> clip[i][3]]
        /\ octave_shift = DefaultForm.octave_shift
        /\ loudness_scale = DefaultForm.loudness_scale
        /\ loudness_floor = DefaultForm.loudness_floor
        /\ loudness_conf_filter = DefaultForm.loudness_conf_filter
        /\ pitch_conf_filter = DefaultForm.pitch_conf_filter
        /\ pitch_smoothing = DefaultForm.pitch_smoothing
        /\ loudness_smoothing = DefaultForm.loudness_smoothing
        /\ f0_filtered = NoArray
        /\ loudness_filtered = NoArray
        /\ f0_shifted = NoArray
        /\ loudness_floored = NoArray
        /\ loudness_scaled = NoArray
        /\ loud_norm = NoArray
        /\ f0_t = NoTensor
        /\ loud_norm_t = NoTensor
        /\ f0_norm_t = NoTensor
        /\ control = NoTensor
        /\ out = NoOut
        /\ sample = NoSample

\* The user moves the gating, octave, floor and scale sliders; each move
\* re-runs the cell.
NextSliders ==
    \E form \in FormChanges(SliderValues) : AdjustControlSignals(form)

SpecSliders == InitExtracted /\ [][NextSliders]_vars

\* The user moves the smoothing sliders.
NextSmoothing ==
    \E form \in FormChanges(SmoothingSliderValues) : AdjustControlSignals(form)

SpecSmoothing == InitExtracted /\ [][NextSmoothing]_vars

(***************************************************************************)
(* The normalisation statements in floating point.                         *)
(*                                                                         *)
(* The cell computes (x - mean) / std on floats (.float() tensors and      *)
(* numpy arrays).  Here every arithmetic operation is the exact rational   *)
(* operation followed by rounding to the nearest number with a mantissa of *)
(* MantissaBits bits, ties to even, with an unbounded exponent (no         *)
(* overflow, no subnormals).  float32 has 24 bits; the mantissa is kept    *)
(* short so that rounding shows on small numbers.                          *)
(***************************************************************************)
MantissaBits == 6

\* The sampled floats are m * 2^e for every mantissa m and every exponent e
\* of magnitude up to MaxExponent.
MaxExponent == 8

RAbs(a) == <<Abs(a[1]), a[2]>>
RLe(a, b) == ~RGt(a, b)

\* <<n', d', e>> with n/d = (n'/d') * 2^e and
\* 2^(MantissaBits-1) <= n'/d' < 2^MantissaBits  (n, d > 0).
RECURSIVE Scaled(_, _, _)
Scaled(n, d, e) ==
    IF n >= d * Pow(2, MantissaBits) THEN Scaled(n, 2 * d, e + 1)
    ELSE IF n < d * Pow(2, MantissaBits - 1) THEN Scaled(2 * n, d, e - 1)
    ELSE <<n, d, e>>

\* n/d rounded to the nearest integer, ties to even (n >= 0, d > 0).
RoundHalfEven(n, d) ==
    LET q == n \div d
        r == n % d
    IN  IF 2 * r > d \/ (2 * r = d /\ q % 2 = 1) THEN q + 1 ELSE q

\* The float nearest to the rational a.
Fl(a) ==
    IF a[1] = 0 THEN Zero
    ELSE LET s == Scaled(Abs(a[1]), a[2], 0)
             m == RoundHalfEven(s[1], s[2])
         IN  RMul(Rat(IF a[1] < 0 THEN -m ELSE m, 1), Pow2(s[3]))

\* (x - mean) / std on floats: the subtraction is rounded, then the division.
NormalizeFloatUncentred(x, mean, std) == Fl(RSub(x, Fl(RDiv(mean, std))))
NormalizeFloat(x, mean, std) == Fl(RDiv(Fl(RSub(x, mean)), std))

\* The floats a frame of f0_t (never negative) and a frame of
\* loudness_scaled (negative below the floor) may hold.
Mantissas == Pow(2, MantissaBits - 1)..(Pow(2, MantissaBits) - 1)
PitchSamples ==
    {Zero} \cup
    { RMul(Rat(m, 1), Pow2(e)) : m \in Mantissas, e \in -MaxExponent..MaxExponent }
LoudnessSamples ==
    PitchSamples \cup
    { RMul(Rat(-m, 1), Pow2(e)) : m \in Mantissas, e \in -MaxExponent..0 }
Samples(channel) == IF channel = 1 THEN PitchSamples ELSE LoudnessSamples

\* A checkpoint is loaded and one frame value is about to be normalised
\* with the statistics of its channel (1: pitch, 2: loudness).
InitNormalization ==
    \E name \in CheckpointNames, channel \in {1, 2} :
      \E x \in Samples(channel) :
        /\ globals = CheckpointGlobals
        /\ selected_checkpoint_name = name
        /\ model_newt = "NEWT"
        /\ data_mean = CheckpointStats(name).mean
        /\ data_std = CheckpointStats(name).std
        /\ audio = NoArray
        /\ f0 = NoArray
        /\ confidence = NoArray
        /\ loudness = NoArray
        /\ octave_shift = DefaultForm.octave_shift
        /\ loudness_scale = DefaultForm.loudness_scale
        /\ loudness_floor = DefaultForm.loudness_floor
        /\ loudness_conf_filter = DefaultForm.loudness_conf_filter
        /\ pitch_conf_filter = DefaultForm.pitch_conf_filter
        /\ pitch_smoothing = DefaultForm.pitch_smoothing
        /\ loudness_smoothing = DefaultForm.loudness_smoothing
        /\ f0_filtered = NoArray
        /\ loudness_filtered = NoArray
        /\ f0_shifted = NoArray
        /\ loudness_floored = NoArray
        /\ loudness_scaled = NoArray
        /\ loud_norm = NoArray
        /\ f0_t = NoTensor
        /\ loud_norm_t = NoTensor
        /\ f0_norm_t = NoTensor
        /\ control = NoTensor
        /\ out = NoOut
        /\ sample = [channel |-> channel, x |-> x, y |-> Zero,
                     normalized |-> FALSE]

\* The statistics of a channel as floats.
MeanFloat(channel) == Fl(data_mean[channel])
StdFloat(channel) == Fl(data_std[channel])

\* loud_norm = (loudness_scaled - data_mean[1]) / data_std[1]  and
\* f0_norm_t = (f0_t.cpu() - data_mean[0]) / data_std[0], on one frame.
NormalizeSample ==
    /\ ~sample.normalized
    /\ sample' = [sample EXCEPT
                     !.y = NormalizeFloat(sample.x, MeanFloat(sample.channel),
                                          StdFloat(sample.channel)),
                     !.normalized = TRUE]
    /\ UNCHANGED <<globals, checkpointVars, model_newt, audio, featureVars,
                   formVars, numpyVars, torchVars, control, out>>

SpecNormalization == InitNormalization /\ [][NormalizeSample]_vars

(***************************************************************************)
(* Properties of the gating, octave, floor and scale steps                 *)
(* (checked under SpecSliders).                                            *)
(***************************************************************************)

C2_IndependentFramewiseGating ==
    /\ "f0_filtered" \in globals =>
        /\ Len(f0_filtered) = Len(f0)
        /\ Len(loudness_filtered) = Len(loudness)
        /\ \A i \in 1..Len(f0) :
            /\ f0_filtered[i] =
                 IF RGt(confidence[i], pitch_conf_filter) THEN f0[i] ELSE Zero
            /\ loudness_filtered[i] =
                 IF RGt(confidence[i], loudness_conf_filter)
                 THEN loudness[i] ELSE Zero
    /\ MaskAbove(<<Rat(440, 1), Rat(440, 1), Zero>>,
                 <<Rat(9, 10), Rat(1, 20), Rat(9, 10)>>, Rat(1, 10))
         = <<Rat(440, 1), Zero, Zero>>

\* The thresholds differ, and some frame is silenced in pitch only while
\* another frame of the same clip passes both gates.
C2_Witness ==
    /\ "f0_filtered" \in globals
    /\ pitch_conf_filter # loudness_conf_filter
    /\ \E i, j \in 1..Len(f0) :
        /\ f0[i] # Zero /\ f0_filtered[i] = Zero
        /\ loudness_filtered[i] # Zero
        /\ f0_filtered[j] # Zero /\ loudness_filtered[j] # Zero

\* C3, as stated: after floor and scale every loudness value is 0 or
\* (original - floor) * scale.
C3_ZeroOrOffset ==
    "loudness_scaled" \in globals =>
        \A i \in 1..Len(loudness) :
            \/ loudness_scaled[i] = Zero
            \/ loudness_scaled[i] =
                 RMul(RSub(loudness[i], loudness_floor), loudness_scale)

\* C3, amended: a frame that passes the confidence gate and is above the
\* floor carries (original - floor) * scale; every other frame carries the
\* negated floor alone, -floor * scale.
C3_NegatedFloorOrOffset ==
    "loudness_scaled" \in globals =>
        \A i \in 1..Len(loudness) :
            loudness_scaled[i] =
                IF /\ RGt(confidence[i], loudness_conf_filter)
                   /\ RGt(loudness[i], loudness_floor)
                THEN RMul(RSub(loudness[i], loudness_floor), loudness_scale)
                ELSE RMul(RSub(Zero, loudness_floor), loudness_scale)

\* With a non-zero floor, one frame is gated and carries -floor * scale,
\* another is not and carries (original - floor) * scale.
C3_Witness ==
    /\ "loudness_scaled" \in globals
    /\ loudness_floor # Zero
    /\ \E i, j \in 1..Len(loudness) :
        /\ ~RGt(loudness[i], loudness_floor)
        /\ loudness[i] # Zero
        /\ RGt(Zero, loudness_scaled[i])
        /\ RGt(loudness[j], loudness_floor)
        /\ RGt(confidence[j], loudness_conf_filter)
        /\ RGt(loudness_scaled[j], Zero)

\* C4: the shifted F0 is the filtered F0 times 2^octave_shift, for
\* octave_shift in -4..4 (a negative shift divides by 2^-octave_shift);
\* a shift of 0 leaves every value as it was.
C4_OctaveShiftScalesByPowerOfTwo ==
    "f0_shifted" \in globals =>
        /\ octave_shift \in MinOctaveShift..MaxOctaveShift
        /\ Len(f0_shifted) = Len(f0_filtered)
        /\ \A i \in 1..Len(f0_filtered) :
            IF octave_shift >= 0
            THEN f0_shifted[i] =
                   RMul(f0_filtered[i], Rat(Pow(2, octave_shift), 1))
            ELSE RMul(f0_shifted[i], Rat(Pow(2, -octave_shift), 1)) =
                   f0_filtered[i]
        /\ octave_shift = 0 => f0_shifted = f0_filtered

\* The slider was moved to 0 and a pitched frame went through unchanged.
C4_Witness ==
    /\ "f0_shifted" \in globals
    /\ octave_shift = 0
    /\ \E i \in 1..Len(f0_shifted) :
        f0_shifted[i] # Zero /\ f0_shifted[i] = f0[i]

(***************************************************************************)
(* Properties of smoothing, normalization and stacking.                    *)
(***************************************************************************)

\* The sequence a tensor holds, whatever its shape.
Row(c, k) == c.data[k]

\* C5: a radius of 0 changes nothing: with pitch_smoothing = 0 the F0
\* tensor is f0_shifted frame for frame, and with loudness_smoothing = 0 the
\* loudness row of the control tensor is the normalized loudness frame for
\* frame.
C5_ZeroRadiusIsIdentity ==
    "f0_norm_t" \in globals =>
        /\ pitch_smoothing = 0 => f0_t = Tensor(f0_shifted)
        /\ (loudness_smoothing = 0 /\ "control" \in globals) =>
               Row(control, 2) = loud_norm

\* C6: the pitch row of the control tensor is normalize(smooth(f0_shifted)):
\* the raw F0 is smoothed first and the smoothed sequence is normalized.
C6_SmoothThenNormalize ==
    ("f0_norm_t" \in globals /\ "control" \in globals) =>
        Row(control, 1) =
            Normalize(IF pitch_smoothing = 0 THEN f0_shifted
                      ELSE Conv1dBox(f0_shifted, pitch_smoothing),
                      data_mean[1], data_std[1])

\* C8: the control tensor is 2 x T, T the length of the raw F0 sequence:
\* row 0 the normalized pitch, row 1 the normalized loudness, both of
\* length T, whatever the two radii.
C8_ControlIsTwoByT ==
    "control" \in globals =>
        /\ control.shape = <<2, Len(f0)>>
        /\ Len(Row(control, 1)) = Len(f0)
        /\ Len(Row(control, 2)) = Len(f0)
        /\ Row(control, 1) = f0_norm_t.data
        /\ Row(control, 2) = loud_norm_t.data

\* The control tensor a complete run of the cell stacks.
RunControl(x, conf, loud, form, mean, std) ==
    Stack(RunPitchRow(x, conf, form, mean, std),
          RunLoudness(loud, conf, form, mean, std))

\* C7: every run of the cell leaves the raw features alone and recomputes
\* everything from them, so after any sequence of slider moves f0_t and the
\* control tensor are what one run with the final form gives.
C7_EveryRunRecomputesFromRaw ==
    [][ /\ UNCHANGED featureVars
        /\ "f0_t" \in globals'
        /\ f0_t' = RunF0(f0', confidence', Form')
        /\ "control" \in globals'
        /\ control' = RunControl(f0', confidence', loudness', Form',
                                 data_mean', data_std') ]_vars

(***************************************************************************)
(* Properties of the notebook as a whole (checked under Spec).             *)
(***************************************************************************)
LoadCheckpointStep == \E name \in CheckpointNames : LoadCheckpoint(name)
AdjustStep ==
    \E form \in FormChanges(NotebookSliderValues) : AdjustControlSignals(form)
OtherCellStep ==
    \/ \E clip \in NotebookClips : GetAudio(clip)
    \/ \E use_fastnewt \in BOOLEAN : SelectNEWTVersion(use_fastnewt)
    \/ SynthesiseAudio

\* C9: data_mean and data_std are those of the selected checkpoint for as
\* long as it is selected: only the Load Checkpoint cell writes them.
C9_StatsWrittenOnlyByLoadCheckpoint ==
    /\ []("data_mean" \in globals =>
            /\ data_mean = CheckpointStats(selected_checkpoint_name).mean
            /\ data_std = CheckpointStats(selected_checkpoint_name).std)
    /\ [][(data_mean' # data_mean \/ data_std' # data_std)
            => LoadCheckpointStep]_vars

\* Every other cell has run since a non-default checkpoint was loaded.
C9_Witness ==
    /\ {"audio", "f0", "control", "out"} \subseteq globals
    /\ model_newt = "FastNEWT"
    /\ selected_checkpoint_name = "Violin"
    /\ data_mean = CheckpointStats("Violin").mean
    /\ data_std = CheckpointStats("Violin").std

\* f0_t and control (t, c) are bound and are what the features, form and
\* statistics in the namespace give.
FreshFor(names, x, conf, loud, form, mean, std, t, c) ==
    /\ {"f0", "data_mean", "f0_t", "control"} \subseteq names
    /\ t = RunF0(x, conf, form)
    /\ c = RunControl(x, conf, loud, form, mean, std)

Fresh ==
    FreshFor(globals, f0, confidence, loudness, Form, data_mean, data_std,
             f0_t, control)

Denormalize(y, mean, std) == Fl(RAdd(Fl(RMul(y, std)), mean))

\* What denormalising the normalised sample gives back.
Recovered ==
    Denormalize(sample.y, MeanFloat(sample.channel), StdFloat(sample.channel))

\* Five units of roundoff (2^-MantissaBits each) on the magnitudes involved.
Tolerance ==
    RMul(Rat(5, Pow(2, MantissaBits)),
         RAdd(RAbs(sample.x), RAbs(MeanFloat(sample.channel))))

\* C11: with the statistics of a loaded checkpoint (std not zero),
\* denormalising the normalised value, ((x - mean) / std) * std + mean,
\* recovers x within floating-point tolerance, on the pitch channel and on
\* the loudness channel: the difference is at most five units of roundoff
\* of |x| + |mean|.
C11_NormalizationRoundTrips ==
    sample.normalized =>
        /\ StdFloat(sample.channel) # Zero
        /\ RLe(RAbs(RSub(Recovered, sample.x)), Tolerance)

\* A frame was normalised and the round trip is off by a rounding error:
\* the recovered value is not x itself.
C11_Witness ==
    /\ sample.normalized
    /\ Recovered # sample.x
    /\ RLe(RAbs(RSub(Recovered, sample.x)), Tolerance)


(***************************************************************************)
(* The boundary of the loudness floor (checked under SpecSliders).         *)
(***************************************************************************)

\* C12, as stated: the floor is a gate and an offset, and a frame whose
\* gated loudness is exactly the floor counts as not below it: only values
\* strictly below the floor are zeroed before the floor is subtracted, so
\* the frame at the floor yields 0.
C12_AtFloorCountsAsAbove ==
    "loudness_floored" \in globals =>
        \A i \in 1..Len(loudness_filtered) :
            /\ loudness_floored[i] =
                 RSub(IF RGt(loudness_floor, loudness_filtered[i])
                      THEN Zero ELSE loudness_filtered[i],
                      loudness_floor)
            /\ loudness_filtered[i] = loudness_floor =>
                 loudness_floored[i] = Zero

\* C12, amended: the floor is a gate and an offset, and the gate is strict:
\* a frame strictly above the floor yields its loudness minus the floor,
\* every other frame -- one exactly at the floor included -- is zeroed and
\* yields the negated floor.
C12_AtFloorCountsAsBelow ==
    "loudness_floored" \in globals =>
        /\ Len(loudness_floored) = Len(loudness_filtered)
        /\ \A i \in 1..Len(loudness_filtered) :
            /\ RGt(loudness_filtered[i], loudness_floor) =>
                 loudness_floored[i] =
                     RSub(loudness_filtered[i], loudness_floor)
            /\ ~RGt(loudness_filtered[i], loudness_floor) =>
                 loudness_floored[i] = RSub(Zero, loudness_floor)
            /\ loudness_filtered[i] = loudness_floor =>
                 RAdd(loudness_floored[i], loudness_floor) = Zero

\* With a non-zero floor, one frame sits exactly at the floor and comes out
\* negative, while another frame is above the floor and keeps the offset
\* value.
C12_Witness ==
    /\ "loudness_floored" \in globals
    /\ loudness_floor # Zero
    /\ \E i, j \in 1..Len(loudness_filtered) :
        /\ loudness_filtered[i] = loudness_floor
        /\ RGt(Zero, loudness_floored[i])
        /\ RGt(loudness_filtered[j], loudness_floor)
        /\ loudness_floored[j] = RSub(loudness_filtered[j], loudness_floor)


(***************************************************************************)
(* The smoothing window at the ends of the sequence                        *)
(* (checked under SpecSmoothing).                                          *)
(***************************************************************************)

\* The average of the values of x on the frames i-r .. i+r that lie inside
\* the sequence.
WindowAverage(x, i, r) ==
    LET lo == Max(1, i - r)
        hi == Min(Len(x), i + r)
    IN  RDiv(SumRange(x, lo, hi), Rat(hi - lo + 1, 1))

\* C13: with a non-zero radius r, every frame of the smoothed sequence --
\* the first r and the last r frames included -- is the average of the
\* target sequence's values over the frames i-r .. i+r that lie inside the
\* sequence.  The target of pitch smoothing is the shifted F0, the target of
\* loudness smoothing is the normalised loudness.
C13_SmoothingIsWindowAverage ==
    "f0_t" \in globals =>
        /\ pitch_smoothing # 0 =>
             \A i \in 1..Len(f0_shifted) :
                 f0_t.data[i] = WindowAverage(f0_shifted, i, pitch_smoothing)
        /\ loudness_smoothing # 0 =>
             \A i \in 1..Len(loud_norm) :
                 loud_norm_t.data[i] =
                     WindowAverage(loud_norm, i, loudness_smoothing)

=============================================================================
